---------------------------- MODULE Spec2Model ----------------------------
(***************************************************************************)
(* The query endpoint of backend/simple_app.py: the process-wide sessions  *)
(* dictionary, the query_documents coroutine and the generation call it    *)
(* makes.  An Optional[str] is modelled as a sequence of length at most 1  *)
(* (<<>> is None), a Python list as a sequence, a dict as a function whose *)
(* DOMAIN is its set of keys.                                              *)
(***************************************************************************)
EXTENDS Integers, Sequences, FiniteSets, TLC

\* ------------------------------------------------------------- bounds ---
\* Requests are accepted while fewer than this many exchanges are stored.
MaxExchanges == 6

\* -------------------------------------------------- inputs of the model ---
\* Client connections that may have a request in flight.
Reqs == {"r1", "r2"}
\* Query texts a client may send (the empty string is one of them).
Queries == {"", "q1"}
\* Values of the optional session_id field of a request.
RequestSessionIds == {<<>>, <<"">>, <<"s1">>}
\* Texts the generation capability may return.
Answers == {"a1"}
\* Messages of the exceptions the generation capability may raise.
Errors == {"overloaded"}

\* ----------------------------------------------------- program constants ---
\* history[-3:]
HistoryWindow == 3
\* config.max_conversation_history of the test configuration
max_conversation_history == 5
DefaultSessionId == "default"
PlaceholderSource == "General AI Knowledge (RAG system not fully initialized)"
KeyNotConfigured == "Anthropic API key not configured"
IndexErrorText == "list index out of range"

VARIABLES
    api_key,     \* whether ANTHROPIC_API_KEY is set in the environment
    sessions,    \* the module-level dict: session id -> list of exchanges
    pc,          \* where each connection's coroutine stands
    request,     \* the QueryRequest being handled
    session_id,  \* local of query_documents
    history,     \* local of query_documents
    messages,    \* local of query_documents, the list given to messages.create
    calls,       \* how many times messages.create was invoked for the request
    generated,   \* what the generation call did for the request
    response,    \* the outcome of the request
    before,      \* the sessions dict when the handler was entered
    served,      \* per session id, the exchanges of the queries answered, in order
    reply        \* the last response of /api/courses or /health

vars == <<api_key, sessions, pc, request, session_id, history, messages,
          calls, generated, response, before, served, reply>>

\* ------------------------------------------------------ data structures ---
QueryRequest(q, sid) == [query |-> q, session_id |-> sid]
NoRequest == [query |-> "", session_id |-> <<>>]

Exchange(q, a) == [user |-> q, assistant |-> a]

Message(role, content) == [role |-> role, content |-> content]

QueryResponse(a, srcs, sid) ==
    [status |-> 200, answer |-> <<a>>, sources |-> srcs,
     session_id |-> <<sid>>, detail |-> <<>>]

HTTPException(code, detail) ==
    [status |-> code, answer |-> <<>>, sources |-> <<>>,
     session_id |-> <<>>, detail |-> <<detail>>]

\* The request got no response at all (the coroutine was torn down).
Abandoned ==
    [status |-> 0, answer |-> <<>>, sources |-> <<>>,
     session_id |-> <<>>, detail |-> <<>>]

NoResponse ==
    [status |-> -1, answer |-> <<>>, sources |-> <<>>,
     session_id |-> <<>>, detail |-> <<>>]

EmptyDict == [k \in {} |-> <<>>]


\* ------------------------------------------------------ pure functions ---
\* Python truth value of an Optional[str]: None and "" are falsy.
Truthy(opt) == opt # <<>> /\ opt[1] # ""

\* session_id = request.session_id or "default"
ResolveSessionId(opt) == IF Truthy(opt) THEN opt[1] ELSE DefaultSessionId

\* dict.setdefault(k, default): inserts the default when the key is missing.
DictSetDefault(d, k, default) ==
    [value |-> IF k \in DOMAIN d THEN d[k] ELSE default,
     dict  |-> IF k \in DOMAIN d THEN d
               ELSE [x \in DOMAIN d \cup {k} |-> IF x = k THEN default ELSE d[x]]]

\* sessions.get("default", default): the key asked for is ignored.
DictGetDefaultKey(d, k, default) ==
    [value |-> IF DefaultSessionId \in DOMAIN d THEN d[DefaultSessionId] ELSE default,
     dict  |-> d]

\* dict.get(k, default): the value read and the dictionary afterwards.
DictGet(d, k, default) ==
    [value |-> IF k \in DOMAIN d THEN d[k] ELSE default,
     dict  |-> d]

\* seq[-n:] for n > 0
LastN(seq, n) ==
    IF Len(seq) <= n THEN seq ELSE SubSeq(seq, Len(seq) - n + 1, Len(seq))

\* The whole list, as a slice that cuts nothing would give it.
WholeHistory(h) == h

\* history[-3:]
PromptHistory(h) == LastN(h, HistoryWindow)

\* The loop body: one user message then one assistant message per exchange.
RECURSIVE TurnPairs(_)
TurnPairs(h) ==
    IF h = <<>> THEN <<>>
    ELSE <<Message("user", Head(h).user),
           Message("assistant", Head(h).assistant)>> \o TurnPairs(Tail(h))

\* if request.query: messages.append(...): an empty query is not appended.
BuildMessagesSkipEmpty(h, q) ==
    TurnPairs(PromptHistory(h)) \o (IF q = "" THEN <<>> ELSE <<Message("user", q)>>)

\* messages = [pairs of history[-3:]] + [current query]
BuildMessages(h, q) == TurnPairs(PromptHistory(h)) \o <<Message("user", q)>>

\* sessions[k] = [exchange]: the list is replaced instead of extended.
OverwriteExchange(d, k, q, a) ==
    [x \in DOMAIN d \cup {k} |-> IF x = k THEN <<Exchange(q, a)>> ELSE d[x]]

\* if k not in sessions: sessions[k] = []; sessions[k].append({...})
StoreExchange(d, k, q, a) ==
    [x \in DOMAIN d \cup {k} |->
        IF x = k
        THEN (IF k \in DOMAIN d THEN d[k] ELSE <<>>) \o <<Exchange(q, a)>>
        ELSE d[x]]

\* sources=[]: a success response that names no source.
NoSources == <<>>

\* sources=["General AI Knowledge (RAG system not fully initialized)"]
Sources == <<PlaceholderSource>>

\* QueryResponse built without session_id: the field's default is sent.
DefaultResponseSessionId(r) == DefaultSessionId

\* session_id=session_id: the response carries the resolved local.
ResponseSessionId(r) == session_id[r]

\* str(e) of the HTTPException raised for the missing key.
KeyErrorDetail == "500: " \o KeyNotConfigured

\* except Exception as e: return QueryResponse(answer=str(e)): the failure is
\* turned into an answer.
SwallowedFailure(e) == QueryResponse(e, <<>>, DefaultSessionId)

\* except Exception as e: raise HTTPException(status_code=500, detail=str(e))
FailureResponse(e) == HTTPException(500, e)

\* ----------------------------------------------------------- scheduling ---
\* A coroutine that awaits the generation call gives the loop back there.
BlocksUnlessAwaiting(r) == pc[r] \notin {"idle", "pending", "generate"}

\* query_documents holds no await: once entered it keeps the event loop
\* until it returns or raises.
Blocks(r) == pc[r] \notin {"idle", "pending"}

LoopFreeFor(r) == \A o \in Reqs \ {r} : ~Blocks(o)

\* Number of exchanges held in a dictionary of lists.
RECURSIVE CountExchanges(_, _)
CountExchanges(d, keys) ==
    IF keys = {} THEN 0
    ELSE LET k == CHOOSE x \in keys : TRUE
         IN Len(d[k]) + CountExchanges(d, keys \ {k})

InFlight == {r \in Reqs : pc[r] # "idle"}

Accepting ==
    CountExchanges(sessions, DOMAIN sessions) + Cardinality(InFlight) < MaxExchanges

\* The log of answered queries, extended by one.
Logged(log, k, q, a) ==
    [x \in DOMAIN log \cup {k} |->
        IF x = k
        THEN (IF k \in DOMAIN log THEN log[k] ELSE <<>>) \o <<Exchange(q, a)>>
        ELSE log[x]]

NotCalled == [kind |-> "none", text |-> ""]

\* ------------------------------------------------ analytics and health ---
\* The application holds no vector store: no course is stored.
StoredCourses == {}

\* The one string get_course_stats puts in course_titles.
StatsNotice ==
    "Full RAG system not initialized - install ChromaDB and sentence-transformers to enable course search"

\* CourseStats(total_courses=..., course_titles=...)
CourseStats(total, titles) ==
    [kind |-> "stats", total_courses |-> total, course_titles |-> titles,
     status |-> "", anthropic_api_configured |-> FALSE, mode |-> ""]

\* The dict health_check returns.
Health(configured) ==
    [kind |-> "health", total_courses |-> 0, course_titles |-> <<>>,
     status |-> "healthy", anthropic_api_configured |-> configured,
     mode |-> "simplified"]

NoReply ==
    [kind |-> "none", total_courses |-> 0, course_titles |-> <<>>,
     status |-> "", anthropic_api_configured |-> FALSE, mode |-> ""]

\* No query handler holds the event loop.
LoopFree == \A r \in Reqs : ~Blocks(r)

\* ----------------------------------------------------------------- Init ---
Init ==
    /\ api_key \in BOOLEAN
    /\ sessions = EmptyDict
    /\ pc = [r \in Reqs |-> "idle"]
    /\ request = [r \in Reqs |-> NoRequest]
    /\ session_id = [r \in Reqs |-> ""]
    /\ history = [r \in Reqs |-> <<>>]
    /\ messages = [r \in Reqs |-> <<>>]
    /\ calls = [r \in Reqs |-> 0]
    /\ generated = [r \in Reqs |-> NotCalled]
    /\ response = [r \in Reqs |-> NoResponse]
    /\ before = [r \in Reqs |-> EmptyDict]
    /\ served = EmptyDict
    /\ reply = NoReply

\* -------------------------------------------------------------- actions ---
\* A client posts a QueryRequest; it waits until the event loop runs its
\* handler.
Submit(r, q, sid) ==
    /\ pc[r] = "idle"
    /\ Accepting
    /\ request' = [request EXCEPT ![r] = QueryRequest(q, sid)]
    /\ pc' = [pc EXCEPT ![r] = "pending"]
    /\ UNCHANGED <<reply, api_key, sessions, session_id, history, messages, calls,
                   generated, response, before, served>>

\* Lines 57-62 and 110-111: the key is missing, the HTTPException raised in
\* the try block is caught and raised again as a 500.
EnterNoKey(r) ==
    /\ pc[r] = "pending"
    /\ LoopFreeFor(r)
    /\ ~api_key
    /\ before' = [before EXCEPT ![r] = sessions]
    /\ response' = [response EXCEPT ![r] = FailureResponse(KeyErrorDetail)]
    /\ pc' = [pc EXCEPT ![r] = "done"]
    /\ UNCHANGED <<reply, api_key, sessions, request, session_id, history, messages,
                   calls, generated, served>>

\* Lines 57-83: resolve the session id, read the history, build the messages.
EnterBuild(r) ==
    /\ pc[r] = "pending"
    /\ LoopFreeFor(r)
    /\ api_key
    /\ before' = [before EXCEPT ![r] = sessions]
    /\ LET id  == ResolveSessionId(request[r].session_id)
           got == DictGet(sessions, id, <<>>)
       IN /\ session_id' = [session_id EXCEPT ![r] = id]
          /\ history' = [history EXCEPT ![r] = got.value]
          /\ sessions' = got.dict
          /\ messages' = [messages EXCEPT
                            ![r] = BuildMessages(got.value, request[r].query)]
    /\ pc' = [pc EXCEPT ![r] = "generate"]
    /\ UNCHANGED <<reply, api_key, request, calls, generated, response, served>>

\* Lines 86-108: the call returns a text; the exchange is stored and the
\* response built.
GenerateOk(r, a) ==
    /\ pc[r] = "generate"
    /\ LoopFreeFor(r)
    /\ calls' = [calls EXCEPT ![r] = @ + 1]
    /\ generated' = [generated EXCEPT ![r] = [kind |-> "text", text |-> a]]
    /\ sessions' = StoreExchange(sessions, session_id[r], request[r].query, a)
    /\ served' = Logged(served, session_id[r], request[r].query, a)
    /\ response' = [response EXCEPT
                      ![r] = QueryResponse(a, Sources, ResponseSessionId(r))]
    /\ pc' = [pc EXCEPT ![r] = "done"]
    /\ UNCHANGED <<reply, api_key, request, session_id, history, messages, before>>

\* Lines 86-92 and 110-111: the call raises; the handler answers 500 with
\* str(e) as detail.
GenerateRaises(r, e) ==
    /\ pc[r] = "generate"
    /\ LoopFreeFor(r)
    /\ calls' = [calls EXCEPT ![r] = @ + 1]
    /\ generated' = [generated EXCEPT ![r] = [kind |-> "raised", text |-> e]]
    /\ response' = [response EXCEPT ![r] = FailureResponse(e)]
    /\ pc' = [pc EXCEPT ![r] = "done"]
    /\ UNCHANGED <<reply, api_key, sessions, request, session_id, history, messages,
                   before, served>>

\* Lines 94 and 110-111: the call returns a response whose content list is
\* empty; content[0] raises IndexError, answered as a 500.
GenerateEmpty(r) ==
    /\ pc[r] = "generate"
    /\ LoopFreeFor(r)
    /\ calls' = [calls EXCEPT ![r] = @ + 1]
    /\ generated' = [generated EXCEPT
                       ![r] = [kind |-> "empty", text |-> IndexErrorText]]
    /\ response' = [response EXCEPT ![r] = FailureResponse(IndexErrorText)]
    /\ pc' = [pc EXCEPT ![r] = "done"]
    /\ UNCHANGED <<reply, api_key, sessions, request, session_id, history, messages,
                   before, served>>

\* Lines 86-92 and 110: the call is interrupted by a BaseException that is no
\* Exception (CancelledError, KeyboardInterrupt); the except clause does not
\* catch it and the request gets no response.
GenerateAbandoned(r) ==
    /\ pc[r] = "generate"
    /\ LoopFreeFor(r)
    /\ calls' = [calls EXCEPT ![r] = @ + 1]
    /\ generated' = [generated EXCEPT ![r] = [kind |-> "interrupted", text |-> ""]]
    /\ response' = [response EXCEPT ![r] = Abandoned]
    /\ pc' = [pc EXCEPT ![r] = "done"]
    /\ UNCHANGED <<reply, api_key, sessions, request, session_id, history, messages,
                   before, served>>

\* The coroutine is over: its frame and locals are dropped.
Return(r) ==
    /\ pc[r] = "done"
    /\ LoopFreeFor(r)
    /\ pc' = [pc EXCEPT ![r] = "idle"]
    /\ request' = [request EXCEPT ![r] = NoRequest]
    /\ session_id' = [session_id EXCEPT ![r] = ""]
    /\ history' = [history EXCEPT ![r] = <<>>]
    /\ messages' = [messages EXCEPT ![r] = <<>>]
    /\ calls' = [calls EXCEPT ![r] = 0]
    /\ generated' = [generated EXCEPT ![r] = NotCalled]
    /\ response' = [response EXCEPT ![r] = NoResponse]
    /\ before' = [before EXCEPT ![r] = EmptyDict]
    /\ UNCHANGED <<reply, api_key, sessions, served>>

\* Lines 113-119: GET /api/courses, the whole handler.
get_course_stats ==
    /\ LoopFree
    /\ reply' = CourseStats(0, <<StatsNotice>>)
    /\ UNCHANGED <<api_key, sessions, pc, request, session_id, history, messages,
                   calls, generated, response, before, served>>

\* Lines 121-129: GET /health, the whole handler.
health_check ==
    /\ LoopFree
    /\ reply' = Health(api_key)
    /\ UNCHANGED <<api_key, sessions, pc, request, session_id, history, messages,
                   calls, generated, response, before, served>>

Next ==
    \/ \E r \in Reqs, q \in Queries, sid \in RequestSessionIds : Submit(r, q, sid)
    \/ \E r \in Reqs : EnterNoKey(r)
    \/ \E r \in Reqs : EnterBuild(r)
    \/ \E r \in Reqs, a \in Answers : GenerateOk(r, a)
    \/ \E r \in Reqs, e \in Errors : GenerateRaises(r, e)
    \/ \E r \in Reqs : GenerateEmpty(r)
    \/ \E r \in Reqs : GenerateAbandoned(r)
    \/ \E r \in Reqs : Return(r)
    \/ get_course_stats
    \/ health_check

Spec == Init /\ [][Next]_vars

\* ------------------------------------------------ helpers of the claims ---
Handled(r) == pc[r] = "done"
Succeeded(r) == pc[r] = "done" /\ response[r].status = 200
\* The list stored under k in dictionary d, empty when k is no key of it.
Stored(d, k) == IF k \in DOMAIN d THEN d[k] ELSE <<>>
\* The exchange a successful request is to leave behind.
ExchangeOf(r) == [user |-> request[r].query, assistant |-> generated[r].text]

\* ----------------------------------------------------------------- C1 ---
\* C1: every session holds at most max_conversation_history exchanges, and
\* what it holds is the most recent max_conversation_history exchanges of the
\* queries answered on it, oldest retained first.
C1_HistoryIsMostRecentCapped ==
    \A k \in DOMAIN sessions :
        /\ Len(sessions[k]) <= max_conversation_history
        /\ LET log == Stored(served, k)
               n   == Len(log)
           IN sessions[k] =
                 [i \in 1..(IF n > max_conversation_history
                            THEN max_conversation_history ELSE n) |->
                     log[i + (IF n > max_conversation_history
                              THEN n - max_conversation_history ELSE 0)]]

\* ----------------------------------------------------------------- C2 ---
\* C2: the sessions dictionary is written only once generation has returned
\* a text: while the call is outstanding, and after a request that ended in
\* an error or was abandoned, it equals what it was when the handler started.
C2_NoWriteUnlessGenerated ==
    \A r \in Reqs :
        /\ pc[r] = "generate" => sessions = before[r]
        /\ (Handled(r) /\ response[r].status # 200) => sessions = before[r]

\* A request on a session id that is no key yet, while another session is
\* stored, ended by a failure of the generation call or by an interruption.
C2_Witness ==
    \E r \in Reqs :
        /\ Handled(r)
        /\ generated[r].kind \in {"raised", "interrupted"}
        /\ session_id[r] \notin DOMAIN before[r]
        /\ before[r] # EmptyDict

\* ----------------------------------------------------------------- C3 ---
\* C3: queries on one session id are served one after the other: each
\* answered query has exactly one exchange in the session, in the order the
\* queries were answered, the exchange of a query is appended to the very
\* history its prompt was built from, and at most one handler is between its
\* read of the history and its return.
C3_QueriesLinearized ==
    /\ DOMAIN sessions = DOMAIN served
    /\ \A k \in DOMAIN served : sessions[k] = served[k]
    /\ \A r \in Reqs :
          Succeeded(r) =>
             /\ session_id[r] \in DOMAIN sessions
             /\ sessions[session_id[r]] = history[r] \o <<ExchangeOf(r)>>
    /\ Cardinality({r \in Reqs : pc[r] \in {"generate", "done"}}) <= 1

\* A query answered on a session that already held an exchange, while another
\* query on the same session id waits for the event loop.
C3_Witness ==
    \E r, o \in Reqs :
        /\ r # o
        /\ Succeeded(r)
        /\ Len(history[r]) >= 1
        /\ pc[o] = "pending"
        /\ ResolveSessionId(request[o].session_id) = session_id[r]

\* ----------------------------------------------------------------- C4 ---
\* C4: a query without a session id runs under an identifier that no live
\* session has.
C4_FreshSessionId ==
    \A r \in Reqs :
        (pc[r] \in {"generate", "done"} /\ api_key /\ request[r].session_id = <<>>)
            => session_id[r] \notin DOMAIN before[r]

\* ----------------------------------------------------------------- C5 ---
\* C5 as stated: a successful query whose request carries a session id string
\* is answered with that string as session_id and recorded under it.
C5_EchoesRequestId ==
    \A r \in Reqs :
        (Succeeded(r) /\ request[r].session_id # <<>>) =>
            /\ response[r].session_id = request[r].session_id
            /\ request[r].session_id[1] \in DOMAIN sessions
            /\ sessions[request[r].session_id[1]] # <<>>
            /\ sessions[request[r].session_id[1]]
                  [Len(sessions[request[r].session_id[1]])] = ExchangeOf(r)

\* C5 amended: the same for a request whose session id is a non-empty string.
C5_EchoesNonEmptyRequestId ==
    \A r \in Reqs :
        (Succeeded(r) /\ request[r].session_id # <<>>
                      /\ request[r].session_id[1] # "") =>
            /\ response[r].session_id = request[r].session_id
            /\ request[r].session_id[1] \in DOMAIN sessions
            /\ sessions[request[r].session_id[1]] # <<>>
            /\ sessions[request[r].session_id[1]]
                  [Len(sessions[request[r].session_id[1]])] = ExchangeOf(r)

\* The third query in a row that reuses the identifier "s1".
C5_Witness ==
    \E r \in Reqs :
        /\ Succeeded(r)
        /\ request[r].session_id = <<"s1">>
        /\ Len(history[r]) = 2

\* ----------------------------------------------------------------- C6 ---
\* The history retained for the session of request r when its handler started.
Retained(r) == Stored(before[r], session_id[r])

\* messages m holds the exchanges of h, a user message then an assistant
\* message each, in order, and then the query q as the last user message.
IsPromptOf(m, h, q) ==
    /\ Len(m) = 2 * Len(h) + 1
    /\ \A i \in 1..Len(h) :
          /\ m[2 * i - 1] = [role |-> "user", content |-> h[i].user]
          /\ m[2 * i] = [role |-> "assistant", content |-> h[i].assistant]
    /\ m[Len(m)] = [role |-> "user", content |-> q]

\* C6 as stated: the message list given to generation is made of all the
\* exchanges retained for the session, untrimmed, then the current query.
C6_PromptIsWholeHistory ==
    \A r \in Reqs :
        (api_key /\ pc[r] \in {"generate", "done"}) =>
            IsPromptOf(messages[r], Retained(r), request[r].query)

\* C6 amended: the message list is made of the last 3 exchanges retained for
\* the session (all of them when there are at most 3), then the current query.
C6_PromptIsLastThree ==
    \A r \in Reqs :
        (api_key /\ pc[r] \in {"generate", "done"}) =>
            LET h == Retained(r)
                k == IF Len(h) > 3 THEN Len(h) - 3 ELSE 0
            IN IsPromptOf(messages[r],
                          [i \in 1..(Len(h) - k) |-> h[i + k]],
                          request[r].query)

\* A prompt built on a session that retains four exchanges.
C6_Witness ==
    \E r \in Reqs :
        /\ pc[r] = "generate"
        /\ Len(Retained(r)) = 4
        /\ Len(messages[r]) = 7

\* ----------------------------------------------------------------- C7 ---
\* C7: the step that answers a query on session id k changes the history of
\* k to what it was (empty when k was no key) with the one exchange made of
\* the request's query and the generated answer at its end; no step removes,
\* re-orders or alters an exchange already stored.
C7_AppendsOneExchange ==
    [][ /\ \A r \in Reqs :
              (pc[r] = "generate" /\ pc'[r] = "done" /\ response'[r].status = 200)
                 => /\ session_id[r] \in DOMAIN sessions'
                    /\ sessions'[session_id[r]] =
                          Stored(sessions, session_id[r])
                             \o <<[user |-> request[r].query,
                                   assistant |-> response'[r].answer[1]]>>
        /\ \A k \in DOMAIN sessions :
              /\ k \in DOMAIN sessions'
              /\ Len(sessions'[k]) \in {Len(sessions[k]), Len(sessions[k]) + 1}
              /\ \A i \in 1..Len(sessions[k]) : sessions'[k][i] = sessions[k][i]
      ]_vars

\* A query answered on an id that was no key, while another session holds
\* two exchanges.
C7_Witness ==
    \E r \in Reqs :
        /\ Succeeded(r)
        /\ session_id[r] \notin DOMAIN before[r]
        /\ \E k \in DOMAIN sessions : Len(sessions[k]) >= 2

\* ----------------------------------------------------------------- C8 ---
\* C8: a query whose generation call failed (it raised, or returned nothing
\* usable) has ended with the one outcome HTTP 500 carrying the failure's
\* text, without an answer, and generation is invoked at most once for a
\* request.
C8_FailureIsTerminal500 ==
    \A r \in Reqs :
        /\ calls[r] <= 1
        /\ generated[r].kind \in {"raised", "empty"} =>
              /\ Handled(r)
              /\ calls[r] = 1
              /\ response[r].status = 500
              /\ response[r].detail = <<generated[r].text>>
              /\ response[r].answer = <<>>

\* The generation call of a request raised.
C8_Witness ==
    \E r \in Reqs :
        /\ generated[r].kind = "raised"
        /\ response[r].status = 500
        /\ messages[r] # <<>>

\* ----------------------------------------------------------------- C9 ---
\* C9 as stated: a query answered without any retrieved chunk returns an
\* empty source list with a non-error answer, generation having been invoked.
C9_NoChunksNoSources ==
    \A r \in Reqs :
        Succeeded(r) =>
            /\ response[r].sources = <<>>
            /\ response[r].answer # <<>>
            /\ calls[r] = 1

\* C9 amended: such a query returns a source list holding only the fixed
\* label "General AI Knowledge (RAG system not fully initialized)", with a
\* non-error answer, generation having been invoked once on messages that
\* hold history and query only.
C9_NoChunksPlaceholderSource ==
    \A r \in Reqs :
        Succeeded(r) =>
            /\ response[r].sources =
                  <<"General AI Knowledge (RAG system not fully initialized)">>
            /\ response[r].answer = <<generated[r].text>>
            /\ calls[r] = 1
            /\ \A i \in 1..Len(messages[r]) :
                  messages[r][i].role \in {"user", "assistant"}

\* A first query answered: nothing was retrieved, nothing was stored before.
C9_Witness ==
    \E r \in Reqs :
        /\ Succeeded(r)
        /\ before[r] = EmptyDict
        /\ request[r].query # ""

\* ---------------------------------------------------------------- C10 ---
\* C10: the message list of a query never holds more than 2 * 3 + 1
\* messages, however many exchanges the session already holds.
C10_PromptBounded ==
    \A r \in Reqs : Len(messages[r]) <= 2 * HistoryWindow + 1

\* A prompt of the maximal length on a session that holds more exchanges
\* than the prompt takes.
C10_Witness ==
    \E r \in Reqs :
        /\ pc[r] = "generate"
        /\ Len(history[r]) > HistoryWindow + 1
        /\ Len(messages[r]) = 2 * HistoryWindow + 1

\* ---------------------------------------------------------------- C11 ---
\* The distinct strings listed in a course_titles list.
TitlesOf(titles) == {titles[i] : i \in 1..Len(titles)}

\* C11: every response of /api/courses has total_courses equal to the number
\* of distinct titles in course_titles, and lists only titles of stored
\* courses.
C11_StatsConsistent ==
    reply.kind = "stats" =>
        /\ reply.total_courses = Cardinality(TitlesOf(reply.course_titles))
        /\ TitlesOf(reply.course_titles) \subseteq StoredCourses

\* ---------------------------------------------------------------- C12 ---
\* C12: a request whose query is the empty string is handled like any other:
\* the history is read, the message list ends with the empty query as a user
\* message, generation is invoked, and when it returns a text the request is
\* answered 200 with answer, sources and session_id and the exchange with the
\* empty query is the last one of the session.
C12_EmptyQueryServed ==
    \A r \in Reqs :
        (api_key /\ pc[r] \in {"generate", "done"} /\ request[r].query = "") =>
            /\ history[r] = Retained(r)
            /\ messages[r] # <<>>
            /\ messages[r][Len(messages[r])] = [role |-> "user", content |-> ""]
            /\ pc[r] = "done" => calls[r] = 1
            /\ generated[r].kind = "text" =>
                  /\ response[r].status = 200
                  /\ response[r].answer = <<generated[r].text>>
                  /\ response[r].sources # <<>>
                  /\ response[r].session_id = <<session_id[r]>>
                  /\ session_id[r] \in DOMAIN sessions
                  /\ sessions[session_id[r]] # <<>>
                  /\ sessions[session_id[r]][Len(sessions[session_id[r]])]
                        = [user |-> "", assistant |-> generated[r].text]

\* An empty query answered on a session that already holds an exchange.
C12_Witness ==
    \E r \in Reqs :
        /\ Succeeded(r)
        /\ request[r].query = ""
        /\ Len(history[r]) >= 1
        /\ sessions[session_id[r]][Len(sessions[session_id[r]])].user = ""

\* ---------------------------------------------------------------- C13 ---
\* Request r is answered in this step.
Answers200(r) ==
    pc[r] = "generate" /\ pc'[r] = "done" /\ response'[r].status = 200

\* C13: the prompt of a query on session id s holds, besides the query, only
\* exchanges that were recorded under s; a step changes the history of a
\* session id (or makes it a key) only when it answers a query on that id;
\* the steps of /api/courses and /health leave the sessions dict as it is.
C13_SessionsIsolated ==
    /\ [](\A r \in Reqs :
            (api_key /\ pc[r] \in {"generate", "done"}) =>
                \A j \in 1..((Len(messages[r]) - 1) \div 2) :
                    \E n \in 1..Len(Retained(r)) :
                        Retained(r)[n] =
                            [user |-> messages[r][2 * j - 1].content,
                             assistant |-> messages[r][2 * j].content])
    /\ [][\A k \in DOMAIN sessions \cup DOMAIN sessions' :
             (Stored(sessions', k) # Stored(sessions, k)
                 \/ (k \in DOMAIN sessions') # (k \in DOMAIN sessions))
             => \E r \in Reqs : Answers200(r) /\ session_id[r] = k]_vars
    /\ [][(pc' = pc /\ reply'.kind \in {"stats", "health"})
             => sessions' = sessions]_vars

\* A query answered on "s1", which held an exchange, while "default" holds
\* another history and /api/courses or /health has been served.
C13_Witness ==
    \E r \in Reqs :
        /\ Succeeded(r)
        /\ session_id[r] = "s1"
        /\ Len(history[r]) >= 1
        /\ DefaultSessionId \in DOMAIN sessions
        /\ sessions[DefaultSessionId] # history[r]
        /\ reply.kind # "none"

=============================================================================
